---- MODULE Spec2Model ----
(***************************************************************************)
(* The predictive heating controller of the Office Temperature Control     *)
(* Node (src/contiki_nodes/node3/node3.c): history ring, 24h forecast,     *)
(* weekly schedule, decision policy, manual override and simulated clock.  *)
(*                                                                         *)
(* Conventions.  C ints used as flags stay 0/1.  Temperatures are whole    *)
(* degrees Celsius: sensor readings and schedule entries are integers in   *)
(* the source, the simulated room temperature is kept as the reading it    *)
(* rounds to, and the forecasts of the embedded predictor, whose code is   *)
(* not among the sources, are whole degrees chosen by one of a few         *)
(* stand-in predictors fixed at start-up.  simulatedHour is counted in     *)
(* 15 s cycles, the increment the tick adds (15.0/3600.0 h), so hour h     *)
(* minute m is h*240 + m*4 and (int)simulatedHour is simulatedHour \div    *)
(* 240; float rounding of the accumulated hour is not modelled.            *)
(***************************************************************************)
EXTENDS Integers, Sequences, FiniteSets, TLC

VARIABLES
    isManualOverride,          \* manual control via button or request (0/1)
    isOptimizationEvent,
    isHeatingOn,
    overrideCyclesRemaining,
    isAutoBehaviorEnabled,
    temperatureHistory,        \* [0..95 -> Int], ring of readings
    tempHistoryIndex,
    tempHistoryFilled,
    cyclesSinceLastTempCheck,
    predictedTemperature,
    predictionBuffer,          \* [0..95 -> Int], the 24h forecast
    predictionBufferFilled,
    targetTemperature,
    nextTargetTemperature,
    nextTargetHour,
    weeklySchedule,            \* [0..167 -> Int], 0 = unset
    scheduleInitialized,
    heatingChangeCooldown,
    simulatedHour,             \* in 15 s cycles, 0..5759
    simulatedDay,
    clockSynced,
    serverDayOfWeek,
    serverHour,
    serverMinute,
    temperatureCelsius,
    simulatedTemperatureFloat, \* the simulated room temperature, in whole degrees
    historical_data_received,
    predictorKind,             \* which single-step predictor the build embeds
    lastOp,                    \* the handler that ran last
    response,                  \* CoAP status code it set
    published,                 \* it called publish_sensor_data()
    scanned,                   \* slots read by the last find_next_target_temperature()
    pushLog,                   \* every reading given to add_temperature_to_history()
    heatingBefore,             \* isHeatingOn when the last handler started
    ticksDone,
    requestsDone

vars == <<isManualOverride, isOptimizationEvent, isHeatingOn, overrideCyclesRemaining,
          isAutoBehaviorEnabled, temperatureHistory, tempHistoryIndex, tempHistoryFilled,
          cyclesSinceLastTempCheck, predictedTemperature, predictionBuffer,
          predictionBufferFilled, targetTemperature, nextTargetTemperature, nextTargetHour,
          weeklySchedule, scheduleInitialized, heatingChangeCooldown, simulatedHour,
          simulatedDay, clockSynced, serverDayOfWeek, serverHour, serverMinute,
          temperatureCelsius, simulatedTemperatureFloat, historical_data_received,
          predictorKind, lastOp, response,
          published, scanned, pushLog, heatingBefore, ticksDone, requestsDone>>

(***************************************************************************)
(* Program constants                                                       *)
(***************************************************************************)
TEMP_CHECK_INTERVAL == 120
TEMP_THRESHOLD_LOW == 1
TEMP_THRESHOLD_HIGH == 2
TEMP_HISTORY_SIZE == 96
MAX_CYCLE_OVERRIDE == 1576800000
SCHEDULE_SLOTS == 168
HOURS_PER_DAY == 24
DAYS_PER_WEEK == 7
CYCLES_PER_HOUR == 240
DEFAULT_TEMPERATURE == 20
INITIAL_READING == 20
INITIAL_SIMULATED_TEMPERATURE == 22
INITIAL_PREDICTION == 22
SCHEDULE_TEMP_MIN == 10
SCHEDULE_TEMP_MAX == 30
SENSOR_TEMP_MIN == 10
SENSOR_TEMP_MAX == 35
FALLBACK_MIN_TEMP == 10
FALLBACK_MAX_TEMP == 20
EXPIRY_COOLDOWN == 5
FIRST_SEARCH_OFFSET == 1
LAST_SEARCH_OFFSET == 168

CYCLES_PER_MINUTE == CYCLES_PER_HOUR \div 60
CYCLES_PER_DAY == HOURS_PER_DAY * CYCLES_PER_HOUR

(***************************************************************************)
(* Bounds of the model                                                     *)
(***************************************************************************)
WarmCycles == 118      \* quiet cycles already run when a warm behaviour of Spec starts
MaxRequests == 2       \* button presses and CoAP requests per behaviour of Spec
MaxRunTicks == 8       \* ticks per behaviour of SpecRun
ShortOverride == 3     \* cycles of the timed override the requests of SpecOverride ask for
MaxClockTicks == 5     \* ticks per behaviour of SpecClock
MaxForecastTicks == 4  \* ticks per behaviour of SpecForecast
RiseCycles == 5        \* cycles before a check in which the room temperature moves (SpecLatch)

\* ticks per behaviour of Spec: a warm behaviour runs through the first check
MaxTicks == TEMP_CHECK_INTERVAL - WarmCycles

\* ticks per behaviour of SpecOverride: a timed override runs out and two more
MaxOverrideTicks == ShortOverride + 2

Min(S) == CHOOSE x \in S : \A y \in S : x <= y
MIN(a, b) == IF a < b THEN a ELSE b
MAX(a, b) == IF a > b THEN a ELSE b

SlotIndices == 0..(SCHEDULE_SLOTS - 1)
HistoryIndices == 0..(TEMP_HISTORY_SIZE - 1)

(***************************************************************************)
(* Weekly schedule                                                         *)
(***************************************************************************)
\* initialize_default_schedule(): 22 at 7h and 18h, 18 at 9h and 23h, every day
DefaultSchedule ==
    [i \in SlotIndices |->
        CASE i % HOURS_PER_DAY = 7  -> 22
          [] i % HOURS_PER_DAY = 9  -> 18
          [] i % HOURS_PER_DAY = 18 -> 22
          [] i % HOURS_PER_DAY = 23 -> 18
          [] OTHER -> 0]

\* simulatedDay * 24 + (int)simulatedHour
CurrentAbsoluteHour(day, hour) == day * HOURS_PER_DAY + (hour \div CYCLES_PER_HOUR)

\* a search that starts at the current slot instead of the one after it
SearchIndexFromCurrent(cur, offset) == (cur + offset - 1) % SCHEDULE_SLOTS

SearchIndex(cur, offset) == (cur + offset) % SCHEDULE_SLOTS

SlotIsSet(temp) == temp > 0

\* a search loop that ends one offset early
ShortSearchOffsets == FIRST_SEARCH_OFFSET..(LAST_SEARCH_OFFSET - 1)

\* the offsets the search loop of find_next_target_temperature() visits
SearchOffsets == FIRST_SEARCH_OFFSET..LAST_SEARCH_OFFSET

\* the slot index reported as it is
HourOfWeek(searchIndex) == searchIndex

\* hour of day reported for a found slot
HourOfDay(searchIndex) == searchIndex % HOURS_PER_DAY

\* find_next_target_temperature(): the first set slot going forward, or none;
\* scanned lists the slots the loop read, in order
find_next_target_temperature(sched, initialized, day, hour) ==
    IF initialized = 0
    THEN [temp |-> 0, hour |-> -1, scanned |-> <<>>]
    ELSE LET cur == CurrentAbsoluteHour(day, hour)
             hits == {o \in SearchOffsets : SlotIsSet(sched[SearchIndex(cur, o)])}
             stop == Min(hits)
             visited == IF hits = {} THEN SearchOffsets
                        ELSE {o \in SearchOffsets : o <= stop}
             seen == [k \in 1..Cardinality(visited) |->
                         SearchIndex(cur, FIRST_SEARCH_OFFSET + k - 1)]
         IN  IF hits = {}
             THEN [temp |-> 0, hour |-> -1, scanned |-> seen]
             ELSE [temp |-> sched[SearchIndex(cur, stop)],
                   hour |-> HourOfDay(SearchIndex(cur, stop)),
                   scanned |-> seen]

\* get_target_temperature()
get_target_temperature(sched, initialized, day, hour) ==
    IF initialized = 0 THEN 0
    ELSE LET currentIndex == CurrentAbsoluteHour(day, hour)
         IN  IF currentIndex >= 0 /\ currentIndex < SCHEDULE_SLOTS
             THEN sched[currentIndex] ELSE 0

(***************************************************************************)
(* History ring and forecast                                               *)
(***************************************************************************)
\* a ring one slot short
ShortRingIndex(idx) == (idx + 1) % (TEMP_HISTORY_SIZE - 1)

NextHistoryIndex(idx) == (idx + 1) % TEMP_HISTORY_SIZE

\* add_temperature_to_history(temp)
add_temperature_to_history(hist, idx, filled, temp) ==
    [hist |-> [hist EXCEPT ![idx] = temp],
     idx |-> NextHistoryIndex(idx),
     filled |-> IF NextHistoryIndex(idx) = 0 THEN 1 ELSE filled]

\* the rolling window predict_next_24_hours() builds: oldest reading first
RollingWindow(hist, idx) ==
    [i \in 1..TEMP_HISTORY_SIZE |-> hist[(idx + i - 1) % TEMP_HISTORY_SIZE]]

\* The embedded model (temperature_model.h) is not part of the sources: it is a
\* pure function of the window, here one of a small family: the newest value
\* again ("persist"), one degree above it up to 30 ("warm"), one degree below
\* it down to 12 ("cool"), no more than 9 ("cold"), the oldest value of the
\* window ("oldest"), the last change repeated within [10, 35] ("trend").  A
\* behaviour of Spec starts with one of PredictorKinds.
PredictorKinds == {"warm", "cool"}

temperature_model_predict(kind, window) ==
    LET newest == window[Len(window)]
    IN  CASE kind = "persist" -> newest
          [] kind = "warm"    -> IF newest < 30 THEN newest + 1 ELSE newest
          [] kind = "cool"    -> IF newest > 12 THEN newest - 1 ELSE newest
          [] kind = "cold"    -> IF newest > 9 THEN 9 ELSE newest
          [] kind = "oldest"  -> window[1]
          [] kind = "trend"   -> LET next == 2 * newest - window[Len(window) - 1]
                                 IN  IF next < SENSOR_TEMP_MIN THEN SENSOR_TEMP_MIN
                                     ELSE IF next > SENSOR_TEMP_MAX THEN SENSOR_TEMP_MAX
                                     ELSE next

\* predict_single_step(): scale, call the model, scale back
predict_single_step(kind, window) == temperature_model_predict(kind, window)

\* a window that is never slid
KeepWindow(window, next) == window

\* slide the window: drop the oldest, append the new prediction
ShiftWindow(window, next) == Append(Tail(window), next)

\* steps first .. first + count - 1 of the prediction loop, run in order on
\* window; out lists their predictions.  (The range is halved rather than walked
\* one step per call; the steps still run first to last.)
RECURSIVE PredictSteps(_, _, _, _)
PredictSteps(kind, window, first, count) ==
    IF count = 1
    THEN LET next_prediction == predict_single_step(kind, window)
         IN  [out |-> <<next_prediction>>,
              window |-> ShiftWindow(window, next_prediction)]
    ELSE LET half == count \div 2
             left == PredictSteps(kind, window, first, half)
             right == PredictSteps(kind, left.window, first + half, count - half)
         IN  [out |-> left.out \o right.out, window |-> right.window]

\* a recomputation that stops one step early and leaves the last entry
predict_next_23_hours(kind, hist, idx, buf) ==
    LET run == PredictSteps(kind, RollingWindow(hist, idx), 0, TEMP_HISTORY_SIZE - 1)
        newBuf == [step \in HistoryIndices |->
                      IF step < Len(run.out) THEN run.out[step + 1] ELSE buf[step]]
    IN  [buf |-> newBuf, filled |-> 1, predicted |-> newBuf[0]]

\* a recomputation that does not mark the horizon as filled
predict_without_filling(kind, hist, idx, buf) ==
    LET run == PredictSteps(kind, RollingWindow(hist, idx), 0, TEMP_HISTORY_SIZE)
        newBuf == [step \in HistoryIndices |->
                      IF step < Len(run.out) THEN run.out[step + 1] ELSE buf[step]]
    IN  [buf |-> newBuf, filled |-> 0, predicted |-> newBuf[0]]

\* predict_next_24_hours(): predictionBuffer[step] for every step 0..95
predict_next_24_hours(kind, hist, idx, buf) ==
    LET run == PredictSteps(kind, RollingWindow(hist, idx), 0, TEMP_HISTORY_SIZE)
        newBuf == [step \in HistoryIndices |->
                      IF step < Len(run.out) THEN run.out[step + 1] ELSE buf[step]]
    IN  [buf |-> newBuf, filled |-> 1, predicted |-> newBuf[0]]

(***************************************************************************)
(* Heating decision policy                                                 *)
(***************************************************************************)
\* hours ahead of a forecast step with the fraction cut off
TruncatedHourOffset(step) == (step + 1) \div 4

\* (int)((step + 1) * 0.25f + 0.5f): hours ahead of forecast step, halves rounded up
FutureHourOffset(step) == ((step + 1) * 25 + 50) \div 100

\* a scan that compares every forecast step with the hour after the current one
NextHourSlot(cur, step) == (cur + 1) % SCHEDULE_SLOTS

\* the schedule slot forecast step is compared with
ForecastSlot(cur, step) == (cur + FutureHourOffset(step)) % SCHEDULE_SLOTS

HasTarget(scheduledTemp) == scheduledTemp > 0

IsCriticalGap(tempGap) == tempGap > TEMP_THRESHOLD_LOW

\* target minus forecast at a step
TempGap(sched, buf, cur, step) == sched[ForecastSlot(cur, step)] - buf[step]

\* a scan whose maximum starts from the first gap it finds, not from 0.0
ScanWithoutFloor(sched, buf, cur) ==
    LET checked == {step \in HistoryIndices : HasTarget(sched[ForecastSlot(cur, step)])}
        gaps == {TempGap(sched, buf, cur, step) : step \in checked}
        maxTempShortfall == IF gaps = {} THEN 0
                            ELSE CHOOSE g \in gaps : \A o \in gaps : g >= o
        raisedAt == {step \in checked : TempGap(sched, buf, cur, step) = maxTempShortfall}
    IN  [maxTempShortfall |-> maxTempShortfall,
         shortfallStepIndex |-> IF raisedAt = {} THEN -1 ELSE Min(raisedAt),
         criticalGapFound |->
             IF \E step \in checked : IsCriticalGap(TempGap(sched, buf, cur, step))
             THEN 1 ELSE 0]

\* The scan loop of control_heating() over the 96 forecast steps.
\* maxTempShortfall starts at 0.0 and is raised by every larger gap; the index is
\* that of the step that raised it last, or -1; criticalGapFound is set by any
\* gap above the turn-on threshold.
ScanForecast(sched, buf, cur) ==
    LET checked == {step \in HistoryIndices : HasTarget(sched[ForecastSlot(cur, step)])}
        gaps == {TempGap(sched, buf, cur, step) : step \in checked}
        maxTempShortfall == CHOOSE g \in gaps \cup {0} : \A o \in gaps \cup {0} : g >= o
        raisedAt == {step \in checked : /\ TempGap(sched, buf, cur, step) = maxTempShortfall
                                        /\ maxTempShortfall > 0}
    IN  [maxTempShortfall |-> maxTempShortfall,
         shortfallStepIndex |-> IF raisedAt = {} THEN -1 ELSE Min(raisedAt),
         criticalGapFound |->
             IF \E step \in checked : IsCriticalGap(TempGap(sched, buf, cur, step))
             THEN 1 ELSE 0]

\* a turn-off test without the hysteresis band
TurnOffWithoutBand(maxTempShortfall) == maxTempShortfall <= 0

ShouldTurnOff(maxTempShortfall) == maxTempShortfall < -TEMP_THRESHOLD_HIGH

\* a decision that never turns the heating on
DecisionWithoutTurnOn(analysis, heating) ==
    IF ShouldTurnOff(analysis.maxTempShortfall) THEN 0 ELSE heating

\* decision on the 24h analysis: on, off, or keep
ScheduledDecision(analysis, heating) ==
    IF analysis.criticalGapFound = 1 THEN 1
    ELSE IF ShouldTurnOff(analysis.maxTempShortfall) THEN 0
    ELSE heating

\* the second loop of control_heating(): is any slot of the horizon set
HasScheduledTemp(sched, cur) ==
    \E step \in HistoryIndices : sched[ForecastSlot(cur, step)] > 0

\* a fallback that keeps the heating as it is
FallbackKeeps(predicted, heating) == heating

\* no target in the next 24 h: absolute bounds on the immediate prediction
FallbackDecision(predicted, heating) ==
    IF predicted < FALLBACK_MIN_TEMP THEN 1
    ELSE IF predicted > FALLBACK_MAX_TEMP THEN 0
    ELSE heating

\* shouldHeat as control_heating() computes it once past the two early returns:
\* the decision on the analysis, then overruled by the fallback when no slot of
\* the horizon is set
ShouldHeat(sched, initialized, buf, bufFilled, day, hour, predicted, heating) ==
    IF initialized = 0 \/ bufFilled = 0 THEN heating
    ELSE LET cur == CurrentAbsoluteHour(day, hour)
             analysis == ScanForecast(sched, buf, cur)
             decided == ScheduledDecision(analysis, heating)
         IN  IF ~HasScheduledTemp(sched, cur)
             THEN FallbackDecision(predicted, heating)
             ELSE decided

\* a policy that looks at the auto flag only
AutoDisabled(override, auto) == auto = 0

\* an auto flag that never reads as disabled
AutoNeverOff(auto) == FALSE

\* !isAutoBehaviorEnabled
AutoBehaviorOff(auto) == auto = 0

\* the policy is skipped in manual mode
SkipsControl(override, auto) == override # 0 \/ AutoBehaviorOff(auto)

\* control_heating() on a record of the fields it reads; the fields it writes
control_heating(st) ==
    IF SkipsControl(st.isManualOverride, st.isAutoBehaviorEnabled)
    THEN [isHeatingOn |-> st.isHeatingOn,
          isOptimizationEvent |-> st.isOptimizationEvent,
          targetTemperature |-> st.targetTemperature,
          nextTargetTemperature |-> st.nextTargetTemperature,
          nextTargetHour |-> st.nextTargetHour,
          scanned |-> st.scanned]
    ELSE LET next == find_next_target_temperature(st.weeklySchedule,
                         st.scheduleInitialized, st.simulatedDay, st.simulatedHour)
             shouldHeat == ShouldHeat(st.weeklySchedule, st.scheduleInitialized,
                               st.predictionBuffer, st.predictionBufferFilled,
                               st.simulatedDay, st.simulatedHour,
                               st.predictedTemperature, st.isHeatingOn)
             cur == CurrentAbsoluteHour(st.simulatedDay, st.simulatedHour)
             analysis == ScanForecast(st.weeklySchedule, st.predictionBuffer, cur)
             turnsOff == /\ st.scheduleInitialized # 0
                         /\ st.predictionBufferFilled # 0
                         /\ analysis.criticalGapFound = 0
                         /\ ShouldTurnOff(analysis.maxTempShortfall)
                         /\ st.isHeatingOn # 0
         IN  [isHeatingOn |-> shouldHeat,
              isOptimizationEvent |-> IF turnsOff THEN 1 ELSE st.isOptimizationEvent,
              targetTemperature |-> get_target_temperature(st.weeklySchedule,
                                        st.scheduleInitialized, st.simulatedDay,
                                        st.simulatedHour),
              nextTargetTemperature |-> next.temp,
              nextTargetHour |-> next.hour,
              scanned |-> next.scanned]

(***************************************************************************)
(* Override expiry and clock                                               *)
(***************************************************************************)
\* an expiry that leaves the auto flag as it was
ExpiryKeepsAuto(override, cycles, auto, cooldown) ==
    IF override # 0 /\ cycles > 0
    THEN [override |-> IF cycles - 1 <= 0 THEN 0 ELSE override,
          cycles |-> cycles - 1, auto |-> auto,
          cooldown |-> IF cycles - 1 <= 0 THEN EXPIRY_COOLDOWN ELSE cooldown]
    ELSE [override |-> override, cycles |-> cycles, auto |-> auto, cooldown |-> cooldown]

\* check_override_expiry()
check_override_expiry(override, cycles, auto, cooldown) ==
    IF override # 0 /\ cycles > 0
    THEN IF cycles - 1 <= 0
         THEN [override |-> 0, cycles |-> cycles - 1, auto |-> 1,
               cooldown |-> EXPIRY_COOLDOWN]
         ELSE [override |-> override, cycles |-> cycles - 1, auto |-> auto,
               cooldown |-> cooldown]
    ELSE [override |-> override, cycles |-> cycles, auto |-> auto, cooldown |-> cooldown]

\* a clock whose day counts on past the end of the week
AdvanceClockPastWeek(day, hour) ==
    IF hour + 1 >= CYCLES_PER_DAY
    THEN [day |-> day + 1, hour |-> 0]
    ELSE [day |-> day, hour |-> hour + 1]

\* simulatedHour += 15.0 / 3600.0, rolling the day over at 24 h
AdvanceClock(day, hour) ==
    IF hour + 1 >= CYCLES_PER_DAY
    THEN [day |-> (day + 1) % DAYS_PER_WEEK, hour |-> 0]
    ELSE [day |-> day, hour |-> hour + 1]

\* the readings simulate_realistic_temperature() can produce next.  The float
\* moves by a heating or cooling rate and a random +-0.1 per cycle and is
\* clamped to [10, 35]; in whole degrees the rounded reading stays or moves by
\* one (which cycle it moves in is left open)
Readings(current) ==
    {r \in {current - 1, current, current + 1} :
        r >= SENSOR_TEMP_MIN /\ r <= SENSOR_TEMP_MAX}

\* a check that comes one cycle early
CheckDueEarly(cycles) == cycles >= TEMP_CHECK_INTERVAL - 1

\* the 30-minute check is due
CheckDue(cycles) == cycles >= TEMP_CHECK_INTERVAL

\* a tick that publishes whenever the network is reachable
PublishesUnsynced(reachable, synced) == reachable

\* the tick reaches publish_sensor_data()
Publishes(reachable, synced) == reachable /\ synced # 0

(***************************************************************************)
(* Requests                                                                *)
(***************************************************************************)
Repeat(n, v) == [i \in 1..n |-> v]

\* a full array with one slot set
SingleSlot(slot, temp) == [i \in 1..SCHEDULE_SLOTS |-> IF i = slot + 1 THEN temp ELSE 0]

DefaultArray == [i \in 1..SCHEDULE_SLOTS |-> DefaultSchedule[i - 1]]

\* {"day":d,"hour":h,"minute":m} of PUT /time_sync; -1 is what a missing field
\* leaves in newDay, newHour, newMinute
SyncRequest(d, h, m) == [day |-> d, hour |-> h, minute |-> m]

\* requests with one field missing or just outside its range
InvalidSyncs ==
    { SyncRequest(-1, 8, 0), SyncRequest(7, 8, 0),
      SyncRequest(0, -1, 0), SyncRequest(0, 24, 0),
      SyncRequest(0, 8, -1), SyncRequest(0, 8, 60) }

\* the requests the behaviours of Spec draw from
SettingsPayloads ==
    { << <<"mo", 1>> >>, << <<"hs", 1>> >>, << <<"hs", 0>> >>, << <<"ab", 0>> >> }

SchedulePayloads ==
    { Repeat(SCHEDULE_SLOTS, 16) }          \* every hour set, below the readings

TimeSyncPayloads == {SyncRequest(0, 8, 0)} \cup InvalidSyncs

\* the requests the behaviours of SpecSchedule draw from
ScheduleArrays ==
    { Repeat(SCHEDULE_SLOTS, 0),            \* every hour unset
      DefaultArray,
      SingleSlot(8, 25),                    \* one set slot
      Repeat(1, 25),                        \* too short
      <<25, 5>>,                            \* second entry below the range
      Repeat(SCHEDULE_SLOTS + 1, 12) }      \* one entry too many

\* first and last day of the week, every hour of the day
ClockDays == {0, DAYS_PER_WEEK - 1}
ClockHours == 0..(HOURS_PER_DAY - 1)

Clocks == {SyncRequest(d, h, 0) : d \in ClockDays, h \in ClockHours}

\* a parse loop that stores whatever number it reads
AnyScheduleTemp(tempInt) == TRUE

ValidScheduleTemp(tempInt) ==
    tempInt = 0 \/ (tempInt >= SCHEDULE_TEMP_MIN /\ tempInt <= SCHEDULE_TEMP_MAX)

\* the parse loop of schedule_put_handler(): entries are stored as they are read;
\* it stops at the first invalid entry, at the end of the array, or at 168 entries
ParseSchedule(payload, sched) ==
    LET offered == MIN(Len(payload), SCHEDULE_SLOTS)
        invalidAt == {i \in 0..(offered - 1) : ~ValidScheduleTemp(payload[i + 1])}
        scheduleIndex == IF invalidAt = {} THEN offered ELSE Min(invalidAt)
    IN  [sched |-> [i \in SlotIndices |->
                       IF i < scheduleIndex THEN payload[i + 1] ELSE sched[i]],
         scheduleIndex |-> scheduleIndex,
         invalid |-> invalidAt # {}]

\* the update is applied when 168 entries were read
ScheduleComplete(scheduleIndex) == scheduleIndex = SCHEDULE_SLOTS

\* range checks that leave the minute out
ValidDayAndHour(newDay, newHour, newMinute) ==
    /\ ~(newDay < 0 \/ newDay > 6)
    /\ ~(newHour < 0 \/ newHour > 23)

\* the range checks of time_sync_put_handler()
ValidTimeSync(newDay, newHour, newMinute) ==
    /\ ~(newDay < 0 \/ newDay > 6)
    /\ ~(newHour < 0 \/ newHour > 23)
    /\ ~(newMinute < 0 \/ newMinute > 59)

\* a clock set to the full hour
SyncedFullHour(newHour, newMinute) == newHour * CYCLES_PER_HOUR

\* a clock set in hours where the model counts cycles
SyncedWholeHours(newHour, newMinute) == newHour

\* (float)newHour + (newMinute / 60.0f), in cycles
SyncedHour(newHour, newMinute) == newHour * CYCLES_PER_HOUR + newMinute * CYCLES_PER_MINUTE

Clamp01(v) == MIN(MAX(v, 0), 1)

\* a duration kept from going negative only
ClampBelow(v) == MAX(v, 0)

ClampCycles(v) == MIN(MAX(v, 0), MAX_CYCLE_OVERRIDE)

\* the parse loop of settings_put_handler(): each known pair is applied as it is
\* read; an unknown name ends the request with BAD_REQUEST
RECURSIVE ParseSettings(_, _, _)
ParseSettings(payload, pos, st) ==
    IF pos > Len(payload) THEN [st EXCEPT !.bad = FALSE]
    ELSE LET name == payload[pos][1]
             value == payload[pos][2]
         IN  CASE name = "mo" ->
                    ParseSettings(payload, pos + 1,
                                  [st EXCEPT !.isManualOverride = Clamp01(value)])
               [] name = "oe" ->
                    ParseSettings(payload, pos + 1,
                                  [st EXCEPT !.isOptimizationEvent = Clamp01(value)])
               [] name = "hs" ->
                    ParseSettings(payload, pos + 1,
                                  [st EXCEPT !.isHeatingOn = Clamp01(value)])
               [] name = "od" ->
                    ParseSettings(payload, pos + 1,
                                  [st EXCEPT !.overrideCyclesRemaining = ClampCycles(value)])
               [] name = "ab" ->
                    ParseSettings(payload, pos + 1,
                                  [st EXCEPT !.isAutoBehaviorEnabled = Clamp01(value)])
               [] name = "ls" -> ParseSettings(payload, pos + 1, st)
               [] OTHER -> [st EXCEPT !.bad = TRUE]

(***************************************************************************)
(* Initial states                                                          *)
(***************************************************************************)
\* the reading of the given quiet cycle (1, 2, ...) of a room that cools from
\* its initial 22 degrees, one degree per cycle, to level and stays there
SettlingReading(cycle, level) == MAX(level, INITIAL_SIMULATED_TEMPERATURE - cycle)

\* the last of the first k pushes that wrote ring slot i, 0 if none did
LastPush(i, k) ==
    IF k >= i + 1
    THEN i + 1 + TEMP_HISTORY_SIZE * ((k - i - 1) \div TEMP_HISTORY_SIZE)
    ELSE 0

\* The state PROCESS_THREAD leaves before its event loop, followed by k quiet
\* cycles: network reachable, no request, fewer than one check interval, the
\* simulated temperature settling from its initial 22 degrees at level.  Such
\* cycles push their reading, advance the clock and count up.
BootAt(k, kind, level) ==
    LET next == find_next_target_temperature(DefaultSchedule, 1, 0, k)
    IN  /\ isManualOverride = 0
        /\ isOptimizationEvent = 0
        /\ isHeatingOn = 0
        /\ overrideCyclesRemaining = 0
        /\ isAutoBehaviorEnabled = 1
        /\ temperatureHistory =
               [i \in HistoryIndices |->
                   IF LastPush(i, k) > 0 THEN SettlingReading(LastPush(i, k), level)
                   ELSE DEFAULT_TEMPERATURE]
        /\ tempHistoryIndex = k % TEMP_HISTORY_SIZE
        /\ tempHistoryFilled = 1
        /\ cyclesSinceLastTempCheck = k
        /\ predictedTemperature = INITIAL_PREDICTION
        /\ predictionBuffer = [i \in HistoryIndices |-> 0]
        /\ predictionBufferFilled = 0
        /\ targetTemperature = get_target_temperature(DefaultSchedule, 1, 0, k)
        /\ nextTargetTemperature = next.temp
        /\ nextTargetHour = next.hour
        /\ weeklySchedule = DefaultSchedule
        /\ scheduleInitialized = 1
        /\ heatingChangeCooldown = 0
        /\ simulatedHour = k
        /\ simulatedDay = 0
        /\ clockSynced = 0
        /\ serverDayOfWeek = 0
        /\ serverHour = 0
        /\ serverMinute = 0
        /\ temperatureCelsius =
               IF k = 0 THEN INITIAL_READING ELSE SettlingReading(k, level)
        /\ simulatedTemperatureFloat =
               IF k = 0 THEN INITIAL_SIMULATED_TEMPERATURE ELSE SettlingReading(k, level)
        /\ historical_data_received = 0
        /\ predictorKind = kind
        /\ lastOp = IF k = 0 THEN "boot" ELSE "tick"
        /\ response = "NONE"
        /\ published = FALSE
        /\ scanned = next.scanned
        /\ pushLog = [cycle \in 1..k |-> SettlingReading(cycle, level)]
        /\ heatingBefore = 0
        /\ ticksDone = 0
        /\ requestsDone = 0

\* quiet cycles in which the room stays at its initial 22 degrees
Boot(k, kind) == BootAt(k, kind, INITIAL_SIMULATED_TEMPERATURE)

(***************************************************************************)
(* Handlers                                                                *)
(***************************************************************************)
\* a decision on the forecast of the check before
StaleForecast(fresh, stale) == stale

\* the forecast control_heating() reads: the one predict_next_24_hours() has
\* just stored in the same call of handle_sensor_event()
DecisionForecast(fresh, stale) == fresh

\* handle_sensor_event(): one 15 s cycle
handle_sensor_event(reachable, reading) ==
    LET ov == check_override_expiry(isManualOverride, overrideCyclesRemaining,
                                    isAutoBehaviorEnabled, heatingChangeCooldown)
        cooldown == IF ov.cooldown > 0 THEN ov.cooldown - 1 ELSE ov.cooldown
        clock == AdvanceClock(simulatedDay, simulatedHour)
        h == add_temperature_to_history(temperatureHistory, tempHistoryIndex,
                                        tempHistoryFilled, reading)
        target == get_target_temperature(weeklySchedule, scheduleInitialized,
                                         clock.day, clock.hour)
        due == CheckDue(cyclesSinceLastTempCheck + 1)
        pred == predict_next_24_hours(predictorKind, h.hist, h.idx, predictionBuffer)
        st == [isManualOverride |-> ov.override,
               isAutoBehaviorEnabled |-> ov.auto,
               isHeatingOn |-> isHeatingOn,
               isOptimizationEvent |-> isOptimizationEvent,
               targetTemperature |-> target,
               nextTargetTemperature |-> nextTargetTemperature,
               nextTargetHour |-> nextTargetHour,
               scanned |-> scanned,
               weeklySchedule |-> weeklySchedule,
               scheduleInitialized |-> scheduleInitialized,
               simulatedDay |-> clock.day,
               simulatedHour |-> clock.hour,
               predictionBuffer |-> DecisionForecast(pred.buf, predictionBuffer),
               predictionBufferFilled |-> pred.filled,
               predictedTemperature |-> pred.predicted]
        ctl == control_heating(st)
        controls == reachable /\ due /\ ~AutoBehaviorOff(ov.auto)
    IN  /\ isManualOverride' = ov.override
        /\ overrideCyclesRemaining' = ov.cycles
        /\ isAutoBehaviorEnabled' = ov.auto
        /\ heatingChangeCooldown' = cooldown
        /\ simulatedDay' = clock.day
        /\ simulatedHour' = clock.hour
        /\ temperatureCelsius' = IF reachable THEN reading ELSE temperatureCelsius
        /\ simulatedTemperatureFloat' =
               IF reachable THEN reading ELSE simulatedTemperatureFloat
        /\ temperatureHistory' = IF reachable THEN h.hist ELSE temperatureHistory
        /\ tempHistoryIndex' = IF reachable THEN h.idx ELSE tempHistoryIndex
        /\ tempHistoryFilled' = IF reachable THEN h.filled ELSE tempHistoryFilled
        /\ pushLog' = IF reachable THEN Append(pushLog, reading) ELSE pushLog
        /\ cyclesSinceLastTempCheck' =
               IF ~reachable THEN cyclesSinceLastTempCheck
               ELSE IF due THEN 0 ELSE cyclesSinceLastTempCheck + 1
        /\ predictionBuffer' = IF reachable /\ due THEN pred.buf ELSE predictionBuffer
        /\ predictionBufferFilled' =
               IF reachable /\ due THEN pred.filled ELSE predictionBufferFilled
        /\ predictedTemperature' =
               IF reachable /\ due THEN pred.predicted ELSE predictedTemperature
        /\ targetTemperature' =
               IF controls THEN ctl.targetTemperature
               ELSE IF reachable THEN target ELSE targetTemperature
        /\ isHeatingOn' = IF controls THEN ctl.isHeatingOn ELSE isHeatingOn
        /\ isOptimizationEvent' =
               IF controls THEN ctl.isOptimizationEvent ELSE isOptimizationEvent
        /\ nextTargetTemperature' =
               IF controls THEN ctl.nextTargetTemperature ELSE nextTargetTemperature
        /\ nextTargetHour' = IF controls THEN ctl.nextTargetHour ELSE nextTargetHour
        /\ scanned' = IF controls THEN ctl.scanned ELSE scanned
        /\ published' = Publishes(reachable, clockSynced)
        /\ lastOp' = IF ~reachable THEN "tick_offline"
                     ELSE IF due THEN "tick_check" ELSE "tick"
        /\ response' = "NONE"
        /\ heatingBefore' = isHeatingOn
        /\ UNCHANGED <<weeklySchedule, scheduleInitialized, clockSynced, serverDayOfWeek,
                       serverHour, serverMinute, historical_data_received, predictorKind>>

\* an activation that leaves the heating as it is
KeptHeating(heating) == heating

\* isHeatingOn = !isHeatingOn
ToggledHeating(heating) == IF heating = 0 THEN 1 ELSE 0

\* a button press that also reloads the default schedule
button_press_reloading_schedule ==
    /\ IF isManualOverride = 1
       THEN /\ isManualOverride' = 0
            /\ overrideCyclesRemaining' = 0
            /\ isHeatingOn' = isHeatingOn
       ELSE /\ isManualOverride' = 1
            /\ isHeatingOn' = ToggledHeating(isHeatingOn)
            /\ overrideCyclesRemaining' = MAX_CYCLE_OVERRIDE
    /\ weeklySchedule' = DefaultSchedule
    /\ lastOp' = "button"
    /\ response' = "NONE"
    /\ published' = FALSE
    /\ heatingBefore' = isHeatingOn
    /\ UNCHANGED <<isOptimizationEvent, isAutoBehaviorEnabled, temperatureHistory,
                   tempHistoryIndex, tempHistoryFilled, cyclesSinceLastTempCheck,
                   predictedTemperature, predictionBuffer, predictionBufferFilled,
                   targetTemperature, nextTargetTemperature, nextTargetHour,
                   scheduleInitialized, heatingChangeCooldown,
                   simulatedHour, simulatedDay, clockSynced, serverDayOfWeek, serverHour,
                   serverMinute, temperatureCelsius, simulatedTemperatureFloat,
                   historical_data_received, predictorKind, scanned, pushLog>>

\* handle_button_press_event(): toggle the manual override
handle_button_press_event ==
    /\ IF isManualOverride = 1
       THEN /\ isManualOverride' = 0
            /\ overrideCyclesRemaining' = 0
            /\ isHeatingOn' = isHeatingOn
       ELSE /\ isManualOverride' = 1
            /\ isHeatingOn' = ToggledHeating(isHeatingOn)
            /\ overrideCyclesRemaining' = MAX_CYCLE_OVERRIDE
    /\ lastOp' = "button"
    /\ response' = "NONE"
    /\ published' = FALSE
    /\ heatingBefore' = isHeatingOn
    /\ UNCHANGED <<isOptimizationEvent, isAutoBehaviorEnabled, temperatureHistory,
                   tempHistoryIndex, tempHistoryFilled, cyclesSinceLastTempCheck,
                   predictedTemperature, predictionBuffer, predictionBufferFilled,
                   targetTemperature, nextTargetTemperature, nextTargetHour,
                   weeklySchedule, scheduleInitialized, heatingChangeCooldown,
                   simulatedHour, simulatedDay, clockSynced, serverDayOfWeek, serverHour,
                   serverMinute, temperatureCelsius, simulatedTemperatureFloat,
                   historical_data_received, predictorKind, scanned, pushLog>>

\* settings_put_handler()
settings_put_handler(payload) ==
    LET st == ParseSettings(payload, 1,
                  [isManualOverride |-> isManualOverride,
                   isOptimizationEvent |-> isOptimizationEvent,
                   isHeatingOn |-> isHeatingOn,
                   overrideCyclesRemaining |-> overrideCyclesRemaining,
                   isAutoBehaviorEnabled |-> isAutoBehaviorEnabled,
                   bad |-> FALSE])
    IN  /\ isManualOverride' = st.isManualOverride
        /\ isOptimizationEvent' = st.isOptimizationEvent
        /\ isHeatingOn' = st.isHeatingOn
        /\ overrideCyclesRemaining' = st.overrideCyclesRemaining
        /\ isAutoBehaviorEnabled' = st.isAutoBehaviorEnabled
        /\ response' = IF st.bad THEN "BAD_REQUEST_4_00" ELSE "CHANGED_2_04"
        /\ lastOp' = "settings"
        /\ published' = FALSE
        /\ heatingBefore' = isHeatingOn
        /\ UNCHANGED <<temperatureHistory, tempHistoryIndex, tempHistoryFilled,
                       cyclesSinceLastTempCheck, predictedTemperature, predictionBuffer,
                       predictionBufferFilled, targetTemperature, nextTargetTemperature,
                       nextTargetHour, weeklySchedule, scheduleInitialized,
                       heatingChangeCooldown, simulatedHour, simulatedDay, clockSynced,
                       serverDayOfWeek, serverHour, serverMinute, temperatureCelsius,
                       simulatedTemperatureFloat, historical_data_received,
                       predictorKind, scanned, pushLog>>

\* a replace that stores the schedule and leaves next target and forecast to
\* the next check
schedule_put_deferred(payload) ==
    LET parsed == ParseSchedule(payload, weeklySchedule)
        applied == ~parsed.invalid /\ ScheduleComplete(parsed.scheduleIndex)
    IN  /\ weeklySchedule' = parsed.sched
        /\ scheduleInitialized' = IF applied THEN 1 ELSE scheduleInitialized
        /\ response' = IF applied THEN "CHANGED_2_04" ELSE "BAD_REQUEST_4_00"
        /\ lastOp' = "schedule"
        /\ published' = FALSE
        /\ heatingBefore' = isHeatingOn
        /\ UNCHANGED <<isManualOverride, isOptimizationEvent, isHeatingOn,
                       overrideCyclesRemaining, isAutoBehaviorEnabled, temperatureHistory,
                       tempHistoryIndex, tempHistoryFilled, cyclesSinceLastTempCheck,
                       targetTemperature, heatingChangeCooldown, simulatedHour,
                       simulatedDay, clockSynced, serverDayOfWeek, serverHour,
                       serverMinute, temperatureCelsius, simulatedTemperatureFloat,
                       historical_data_received, predictorKind, pushLog,
                       nextTargetTemperature, nextTargetHour, scanned, predictionBuffer,
                       predictionBufferFilled, predictedTemperature>>

\* schedule_put_handler()
schedule_put_handler(payload) ==
    LET parsed == ParseSchedule(payload, weeklySchedule)
        applied == ~parsed.invalid /\ ScheduleComplete(parsed.scheduleIndex)
        next == find_next_target_temperature(parsed.sched, 1, simulatedDay,
                                             simulatedHour)
        pred == predict_next_24_hours(predictorKind, temperatureHistory,
                                      tempHistoryIndex, predictionBuffer)
    IN  /\ weeklySchedule' = parsed.sched
        /\ scheduleInitialized' = IF applied THEN 1 ELSE scheduleInitialized
        /\ nextTargetTemperature' = IF applied THEN next.temp ELSE nextTargetTemperature
        /\ nextTargetHour' = IF applied THEN next.hour ELSE nextTargetHour
        /\ scanned' = IF applied THEN next.scanned ELSE scanned
        /\ predictionBuffer' = IF applied THEN pred.buf ELSE predictionBuffer
        /\ predictionBufferFilled' = IF applied THEN pred.filled ELSE predictionBufferFilled
        /\ predictedTemperature' = IF applied THEN pred.predicted ELSE predictedTemperature
        /\ response' = IF applied THEN "CHANGED_2_04" ELSE "BAD_REQUEST_4_00"
        /\ lastOp' = "schedule"
        /\ published' = FALSE
        /\ heatingBefore' = isHeatingOn
        /\ UNCHANGED <<isManualOverride, isOptimizationEvent, isHeatingOn,
                       overrideCyclesRemaining, isAutoBehaviorEnabled, temperatureHistory,
                       tempHistoryIndex, tempHistoryFilled, cyclesSinceLastTempCheck,
                       targetTemperature, heatingChangeCooldown, simulatedHour,
                       simulatedDay, clockSynced, serverDayOfWeek, serverHour,
                       serverMinute, temperatureCelsius, simulatedTemperatureFloat,
                       historical_data_received, predictorKind, pushLog>>

\* an initial forecast on every accepted sync
AnyValidSync(valid, received) == valid

\* the accepted sync is the first one: if (!historical_data_received)
FirstSync(valid, received) == valid /\ received = 0

\* time_sync_put_handler()
time_sync_put_handler(payload) ==
    LET valid == ValidTimeSync(payload.day, payload.hour, payload.minute)
        newHour == SyncedHour(payload.hour, payload.minute)
        next == find_next_target_temperature(weeklySchedule, scheduleInitialized,
                                             payload.day, newHour)
        first == FirstSync(valid, historical_data_received)
        pred == predict_next_24_hours(predictorKind, temperatureHistory,
                                      tempHistoryIndex, predictionBuffer)
    IN  /\ simulatedDay' = IF valid THEN payload.day ELSE simulatedDay
        /\ simulatedHour' = IF valid THEN newHour ELSE simulatedHour
        /\ serverDayOfWeek' = IF valid THEN payload.day ELSE serverDayOfWeek
        /\ serverHour' = IF valid THEN payload.hour ELSE serverHour
        /\ serverMinute' = IF valid THEN payload.minute ELSE serverMinute
        /\ clockSynced' = IF valid THEN 1 ELSE clockSynced
        /\ nextTargetTemperature' = IF valid THEN next.temp ELSE nextTargetTemperature
        /\ nextTargetHour' = IF valid THEN next.hour ELSE nextTargetHour
        /\ scanned' = IF valid THEN next.scanned ELSE scanned
        /\ historical_data_received' = IF first THEN 1 ELSE historical_data_received
        /\ tempHistoryFilled' = IF first THEN 1 ELSE tempHistoryFilled
        /\ predictionBuffer' = IF first THEN pred.buf ELSE predictionBuffer
        /\ predictionBufferFilled' = IF first THEN pred.filled ELSE predictionBufferFilled
        /\ predictedTemperature' = IF first THEN pred.predicted ELSE predictedTemperature
        /\ response' = IF valid THEN "CHANGED_2_04" ELSE "BAD_REQUEST_4_00"
        /\ lastOp' = "time_sync"
        /\ published' = FALSE
        /\ heatingBefore' = isHeatingOn
        /\ UNCHANGED <<isManualOverride, isOptimizationEvent, isHeatingOn,
                       overrideCyclesRemaining, isAutoBehaviorEnabled, temperatureHistory,
                       tempHistoryIndex, cyclesSinceLastTempCheck, targetTemperature,
                       weeklySchedule, scheduleInitialized, heatingChangeCooldown,
                       temperatureCelsius, simulatedTemperatureFloat, predictorKind,
                       pushLog>>

\* a search that resumes from the hour it found last
find_next_from_last_found ==
    LET hour == IF nextTargetHour >= 0 THEN nextTargetHour * CYCLES_PER_HOUR
                ELSE simulatedHour
        next == find_next_target_temperature(weeklySchedule, scheduleInitialized,
                                             simulatedDay, hour)
    IN  /\ nextTargetTemperature' = next.temp
        /\ nextTargetHour' = next.hour
        /\ scanned' = next.scanned
        /\ lastOp' = "find_next"
        /\ response' = "NONE"
        /\ published' = FALSE
        /\ heatingBefore' = isHeatingOn
        /\ UNCHANGED <<isManualOverride, isOptimizationEvent, isHeatingOn,
                       overrideCyclesRemaining, isAutoBehaviorEnabled, temperatureHistory,
                       tempHistoryIndex, tempHistoryFilled, cyclesSinceLastTempCheck,
                       predictedTemperature, predictionBuffer, predictionBufferFilled,
                       targetTemperature, weeklySchedule, scheduleInitialized,
                       heatingChangeCooldown, simulatedHour, simulatedDay, clockSynced,
                       serverDayOfWeek, serverHour, serverMinute, temperatureCelsius,
                       simulatedTemperatureFloat, historical_data_received,
                       predictorKind, pushLog>>

\* one call of find_next_target_temperature() on the state as it is
call_find_next_target_temperature ==
    LET next == find_next_target_temperature(weeklySchedule, scheduleInitialized,
                                             simulatedDay, simulatedHour)
    IN  /\ nextTargetTemperature' = next.temp
        /\ nextTargetHour' = next.hour
        /\ scanned' = next.scanned
        /\ lastOp' = "find_next"
        /\ response' = "NONE"
        /\ published' = FALSE
        /\ heatingBefore' = isHeatingOn
        /\ UNCHANGED <<isManualOverride, isOptimizationEvent, isHeatingOn,
                       overrideCyclesRemaining, isAutoBehaviorEnabled, temperatureHistory,
                       tempHistoryIndex, tempHistoryFilled, cyclesSinceLastTempCheck,
                       predictedTemperature, predictionBuffer, predictionBufferFilled,
                       targetTemperature, weeklySchedule, scheduleInitialized,
                       heatingChangeCooldown, simulatedHour, simulatedDay, clockSynced,
                       serverDayOfWeek, serverHour, serverMinute, temperatureCelsius,
                       simulatedTemperatureFloat, historical_data_received,
                       predictorKind, pushLog>>

\* a behaviour of Spec starts at power-up or after WarmCycles quiet cycles
InitCycles == {0, WarmCycles}

Init == \E k \in InitCycles, kind \in PredictorKinds : Boot(k, kind)

\* a behaviour of SpecRun starts at power-up or shortly before the ring wraps
RunStartCycles == {0, TEMP_HISTORY_SIZE - 4}

InitRun == \E k \in RunStartCycles : Boot(k, "persist")

InitSchedule == Boot(0, "persist")

(***************************************************************************)
(* Spec: the process with all its handlers                                 *)
(***************************************************************************)
\* the etimer expires: any reachability, any reading the sensor can give
Tick ==
    /\ ticksDone < MaxTicks
    /\ ticksDone' = ticksDone + 1
    /\ UNCHANGED requestsDone
    /\ \E reachable \in BOOLEAN, reading \in Readings(simulatedTemperatureFloat) :
           handle_sensor_event(reachable, reading)

ButtonPress ==
    /\ requestsDone < MaxRequests
    /\ requestsDone' = requestsDone + 1
    /\ UNCHANGED ticksDone
    /\ handle_button_press_event

SettingsPut ==
    /\ requestsDone < MaxRequests
    /\ requestsDone' = requestsDone + 1
    /\ UNCHANGED ticksDone
    /\ \E payload \in SettingsPayloads : settings_put_handler(payload)

SchedulePut ==
    /\ requestsDone < MaxRequests
    /\ requestsDone' = requestsDone + 1
    /\ UNCHANGED ticksDone
    /\ \E payload \in SchedulePayloads : schedule_put_handler(payload)

TimeSyncPut ==
    /\ requestsDone < MaxRequests
    /\ requestsDone' = requestsDone + 1
    /\ UNCHANGED ticksDone
    /\ \E payload \in TimeSyncPayloads : time_sync_put_handler(payload)

Next == Tick \/ ButtonPress \/ SettingsPut \/ SchedulePut \/ TimeSyncPut

Spec == Init /\ [][Next]_vars

(***************************************************************************)
(* SpecSchedule: schedule replacement under every clock                    *)
(***************************************************************************)
ScheduleReplace ==
    /\ UNCHANGED <<ticksDone, requestsDone>>
    /\ \E payload \in ScheduleArrays : schedule_put_handler(payload)

ClockSync ==
    /\ UNCHANGED <<ticksDone, requestsDone>>
    /\ \E payload \in Clocks : time_sync_put_handler(payload)

NextSchedule == ScheduleReplace \/ ClockSync

SpecSchedule == InitSchedule /\ [][NextSchedule]_vars

(***************************************************************************)
(* SpecRun: the sensor cycle alone                                         *)
(***************************************************************************)
RunTick ==
    /\ ticksDone < MaxRunTicks
    /\ ticksDone' = ticksDone + 1
    /\ UNCHANGED requestsDone
    /\ \E reachable \in BOOLEAN, reading \in Readings(simulatedTemperatureFloat) :
           handle_sensor_event(reachable, reading)

SpecRun == InitRun /\ [][RunTick]_vars

(***************************************************************************)
(* SpecForecast: the cycles around the first check, with predictors that   *)
(* read both ends of the window                                            *)
(***************************************************************************)
ForecastKinds == {"oldest", "trend"}

InitForecast ==
    \E kind \in ForecastKinds : Boot(TEMP_CHECK_INTERVAL - MaxForecastTicks + 1, kind)

ForecastTick ==
    /\ ticksDone < MaxForecastTicks
    /\ ticksDone' = ticksDone + 1
    /\ UNCHANGED requestsDone
    /\ \E reachable \in BOOLEAN, reading \in Readings(simulatedTemperatureFloat) :
           handle_sensor_event(reachable, reading)

SpecForecast == InitForecast /\ [][ForecastTick]_vars

(***************************************************************************)
(* SpecHorizon: the first check over schedules with one slot at the edges  *)
(* of the horizon and forecasts that move from step to step                *)
(***************************************************************************)
HorizonKinds == {"cool", "warm"}

InitHorizon == \E kind \in HorizonKinds : Boot(TEMP_CHECK_INTERVAL - 1, kind)

\* one target: at the current hour, one hour on, 24 hours on, 25 hours on
HorizonSchedules ==
    { SingleSlot(0, 22), SingleSlot(1, 21), SingleSlot(HOURS_PER_DAY, 22),
      SingleSlot(HOURS_PER_DAY + 1, 22) }

HorizonSchedulePut ==
    /\ requestsDone < MaxRequests
    /\ requestsDone' = requestsDone + 1
    /\ UNCHANGED ticksDone
    /\ \E payload \in HorizonSchedules : schedule_put_handler(payload)

NextHorizon == Tick \/ HorizonSchedulePut

SpecHorizon == InitHorizon /\ [][NextHorizon]_vars

(***************************************************************************)
(* SpecLatch: the default schedule with no button press, settings request  *)
(* or schedule replace, from one cycle before the first check through the  *)
(* second check                                                            *)
(***************************************************************************)
LatchKinds == {"persist", "cool"}

InitLatch ==
    \E kind \in LatchKinds : BootAt(TEMP_CHECK_INTERVAL - 1, kind, DEFAULT_TEMPERATURE)

\* ticks per behaviour of SpecLatch: the first check and the interval after it
MaxLatchTicks == TEMP_CHECK_INTERVAL + 1

\* the clocks the controller may set before the first check
LatchSyncs == { SyncRequest(DAYS_PER_WEEK - 1, HOURS_PER_DAY - 1, 0) }

\* the etimer expires with the network up; the room temperature moves only in
\* the last RiseCycles cycles before a check
LatchTick ==
    /\ ticksDone < MaxLatchTicks
    /\ ticksDone' = ticksDone + 1
    /\ UNCHANGED requestsDone
    /\ \E reading \in Readings(simulatedTemperatureFloat) :
           /\ \/ TEMP_CHECK_INTERVAL - cyclesSinceLastTempCheck <= RiseCycles
              \/ reading = simulatedTemperatureFloat
           /\ handle_sensor_event(TRUE, reading)

LatchSync ==
    /\ ticksDone = 0
    /\ requestsDone = 0
    /\ requestsDone' = requestsDone + 1
    /\ UNCHANGED ticksDone
    /\ \E payload \in LatchSyncs : time_sync_put_handler(payload)

NextLatch == LatchTick \/ LatchSync

SpecLatch == InitLatch /\ [][NextLatch]_vars

(***************************************************************************)
(* SpecPolicy: the first 30-minute check after power-up                    *)
(***************************************************************************)
\* the forecast repeats the newest reading, or predicts a cold room
PolicyKinds == {"persist", "cold"}

\* the room has settled at 20 degrees or stays at its initial 22
PolicyLevels == {DEFAULT_TEMPERATURE, INITIAL_SIMULATED_TEMPERATURE}

\* one cycle before the first check
InitPolicy ==
    \E kind \in PolicyKinds, level \in PolicyLevels :
        BootAt(TEMP_CHECK_INTERVAL - 1, kind, level)

PolicySettings == { << <<"hs", 1>> >>, << <<"ab", 0>> >> }

PolicySchedules == { Repeat(SCHEDULE_SLOTS, 0) }

PolicySyncs == { SyncRequest(0, 8, 0) }

PolicySettingsPut ==
    /\ requestsDone < MaxRequests
    /\ requestsDone' = requestsDone + 1
    /\ UNCHANGED ticksDone
    /\ \E payload \in PolicySettings : settings_put_handler(payload)

PolicySchedulePut ==
    /\ requestsDone < MaxRequests
    /\ requestsDone' = requestsDone + 1
    /\ UNCHANGED ticksDone
    /\ \E payload \in PolicySchedules : schedule_put_handler(payload)

PolicyTimeSync ==
    /\ requestsDone < MaxRequests
    /\ requestsDone' = requestsDone + 1
    /\ UNCHANGED ticksDone
    /\ \E payload \in PolicySyncs : time_sync_put_handler(payload)

NextPolicy == Tick \/ PolicySettingsPut \/ PolicySchedulePut \/ PolicyTimeSync

SpecPolicy == InitPolicy /\ [][NextPolicy]_vars

(***************************************************************************)
(* SpecOverride: the manual override under ticks, button and settings      *)
(***************************************************************************)
InitOverride == Boot(0, "persist")

OverrideSettings ==
    { << <<"mo", 1>>, <<"od", ShortOverride>> >>,    \* timed override
      << <<"mo", 1>> >>,
      << <<"mo", 0>> >>,
      << <<"ab", 0>> >>,
      << <<"od", -ShortOverride>> >>,                \* below the range
      << <<"od", MAX_CYCLE_OVERRIDE + 1>> >>,        \* above the cap
      << <<"mo", 1>>, <<"xx", 1>> >> }               \* unknown name after a known one

\* the etimer expires; the room stays as it is
OverrideTick ==
    /\ ticksDone < MaxOverrideTicks
    /\ ticksDone' = ticksDone + 1
    /\ UNCHANGED requestsDone
    /\ \E reachable \in BOOLEAN : handle_sensor_event(reachable, simulatedTemperatureFloat)

OverrideButton ==
    /\ UNCHANGED <<ticksDone, requestsDone>>
    /\ handle_button_press_event

OverrideSettingsPut ==
    /\ UNCHANGED <<ticksDone, requestsDone>>
    /\ \E payload \in OverrideSettings : settings_put_handler(payload)

NextOverride == OverrideTick \/ OverrideButton \/ OverrideSettingsPut

SpecOverride == InitOverride /\ [][NextOverride]_vars

(***************************************************************************)
(* SpecSearch: the search for the next target, called on its own           *)
(***************************************************************************)
\* first, a morning and the last hour of the first and the last day of the week
SearchClocks == { SyncRequest(d, h, 0) : d \in ClockDays, h \in {0, 8, HOURS_PER_DAY - 1} }

\* these, a clock at half past, and an hour out of range
SearchSyncs == SearchClocks \cup { SyncRequest(3, 12, 30), SyncRequest(0, HOURS_PER_DAY, 0) }

SearchScheduleReplace ==
    /\ UNCHANGED <<ticksDone, requestsDone>>
    /\ \E payload \in ScheduleArrays : schedule_put_handler(payload)

SearchClockSync ==
    /\ UNCHANGED <<ticksDone, requestsDone>>
    /\ \E payload \in SearchSyncs : time_sync_put_handler(payload)

FindNextCall ==
    /\ UNCHANGED <<ticksDone, requestsDone>>
    /\ call_find_next_target_temperature

NextSearch == SearchScheduleReplace \/ SearchClockSync \/ FindNextCall

SpecSearch == InitSchedule /\ [][NextSearch]_vars

(***************************************************************************)
(* SpecClock: the simulated clock under ticks and syncs                    *)
(***************************************************************************)
\* one minute to midnight on the first and the last day, noon, one minute
\* before the first target of the day, and an hour out of range
ClockSets ==
    { SyncRequest(0, HOURS_PER_DAY - 1, 59),
      SyncRequest(DAYS_PER_WEEK - 1, HOURS_PER_DAY - 1, 59),
      SyncRequest(3, 12, 0),
      SyncRequest(0, 6, 59),
      SyncRequest(0, HOURS_PER_DAY, 0) }

\* the etimer expires; the room stays as it is
ClockTick ==
    /\ ticksDone < MaxClockTicks
    /\ ticksDone' = ticksDone + 1
    /\ UNCHANGED requestsDone
    /\ \E reachable \in BOOLEAN : handle_sensor_event(reachable, simulatedTemperatureFloat)

ClockSet ==
    /\ UNCHANGED <<ticksDone, requestsDone>>
    /\ \E payload \in ClockSets : time_sync_put_handler(payload)

NextClock == ClockTick \/ ClockSet

SpecClock == InitSchedule /\ [][NextClock]_vars

(***************************************************************************)
(* Properties                                                              *)
(***************************************************************************)
BadRequest == "BAD_REQUEST_4_00"
Changed == "CHANGED_2_04"

\* the clock the last handler left, as an absolute hour of the week
NowAbsoluteHour == CurrentAbsoluteHour(simulatedDay, simulatedHour)

SetSlots == {i \in SlotIndices : weeklySchedule[i] > 0}

\* the last handler ended with a search on the schedule and clock it left
SearchRan == lastOp \in {"schedule", "time_sync"} /\ response = Changed

\* the slot the last search stopped at
SelectedSlot == scanned[Len(scanned)]

\* hours from the current hour forward to slot, 1..168; 168 is the current slot
ForwardOffset(slot) ==
    ((slot - NowAbsoluteHour - 1 + SCHEDULE_SLOTS) % SCHEDULE_SLOTS) + 1

\* an array the schedule contract refuses
ShortOrOutOfRange(payload) ==
    \/ Len(payload) < SCHEDULE_SLOTS
    \/ \E i \in 1..Len(payload) :
           ~(payload[i] = 0 \/ (payload[i] >= 10 /\ payload[i] <= 30))

\* C1: a schedule request with fewer than 168 entries or an entry outside
\* {0} and 10..30 reports BAD_REQUEST and leaves every slot as it was
C1_RejectedScheduleUntouched ==
    [][\A payload \in ScheduleArrays :
           (ShortOrOutOfRange(payload) /\ schedule_put_handler(payload))
               => (response' = BadRequest /\ weeklySchedule' = weeklySchedule)]_vars

\* C2: while the override is active and stays active, only a button press or a
\* settings request changes the heating state; no tick, check or other request does
C2_OverrideDominates ==
    [][(isManualOverride = 1 /\ isManualOverride' = 1 /\ isHeatingOn' # isHeatingOn)
           => lastOp' \in {"button", "settings"}]_vars

\* a forecast step whose scheduled target is set and more than the turn-on
\* threshold above the forecast
CriticalStepExists ==
    \E step \in HistoryIndices :
        LET target == weeklySchedule[ForecastSlot(NowAbsoluteHour, step)]
        IN  target > 0 /\ target - predictionBuffer[step] > TEMP_THRESHOLD_LOW

\* the override was active through a check that would have turned the heating on
C2_Witness ==
    /\ lastOp = "tick_check"
    /\ isManualOverride = 1
    /\ isAutoBehaviorEnabled = 1
    /\ CriticalStepExists
    /\ heatingBefore = 0
    /\ isHeatingOn = 0

\* the last handler was a check with the override inactive and auto-behaviour on
DecisionRan ==
    /\ lastOp = "tick_check"
    /\ isManualOverride = 0
    /\ isAutoBehaviorEnabled = 1

\* C3: after a decision with override inactive and auto-behaviour enabled, a
\* forecast step more than 1.0 below its set target means the heating is on
C3_CriticalShortfallHeats ==
    (DecisionRan /\ CriticalStepExists) => isHeatingOn = 1

\* the decision switched the heating on
C3_Witness ==
    DecisionRan /\ CriticalStepExists /\ heatingBefore = 0 /\ isHeatingOn = 1

\* the forecast steps that have a set target
TargetSteps ==
    {step \in HistoryIndices : weeklySchedule[ForecastSlot(NowAbsoluteHour, step)] > 0}

\* every set target of the horizon is more than the turn-off threshold below
\* the forecast
OvershootsEverywhere ==
    /\ TargetSteps # {}
    /\ \A step \in TargetSteps :
           weeklySchedule[ForecastSlot(NowAbsoluteHour, step)] - predictionBuffer[step]
               < -TEMP_THRESHOLD_HIGH

\* C4: after a decision with override inactive and auto-behaviour enabled, no
\* critical shortfall and a maximum gap below -2.0 mean the heating is off
C4_OvershootTurnsOff ==
    (DecisionRan /\ OvershootsEverywhere) => isHeatingOn = 0

\* C5: a search never selects the slot of the current hour
C5_NeverCurrentSlot ==
    (SearchRan /\ nextTargetHour # -1) => SelectedSlot # NowAbsoluteHour

\* C5, as the code has it: a search selects the slot of the current hour only
\* when no other slot of the week is set
C5_CurrentSlotOnlyWhenAlone ==
    (SearchRan /\ nextTargetHour # -1 /\ SelectedSlot = NowAbsoluteHour)
        => SetSlots = {NowAbsoluteHour}

\* the only set slot is the current one and the search returned it
C5_Witness ==
    /\ SearchRan
    /\ SetSlots = {NowAbsoluteHour}
    /\ SelectedSlot = NowAbsoluteHour
    /\ nextTargetTemperature = weeklySchedule[NowAbsoluteHour]

\* C6: on an initialized schedule with no set slot a search returns none
\* (0, -1) after reading each of the 168 slots exactly once
C6_EmptyScheduleFindsNone ==
    (SearchRan /\ SetSlots = {})
        => /\ nextTargetTemperature = 0
           /\ nextTargetHour = -1
           /\ Len(scanned) = SCHEDULE_SLOTS
           /\ \A slot \in SlotIndices :
                  Cardinality({k \in 1..Len(scanned) : scanned[k] = slot}) = 1

\* an empty schedule searched from the last hour of the week
C6_Witness ==
    /\ SearchRan
    /\ SetSlots = {}
    /\ scheduleInitialized = 1
    /\ NowAbsoluteHour = SCHEDULE_SLOTS - 1
    /\ nextTargetHour = -1

\* C7: with a set slot, a search returns the value and the hour of day of the
\* set slot nearest going forward (wrapping after slot 167); every slot
\* between the current hour and it is unset
C7_NearestSetSlotForward ==
    (SearchRan /\ SetSlots # {})
        => \E slot \in SetSlots :
               /\ \A other \in SetSlots : ForwardOffset(slot) <= ForwardOffset(other)
               /\ nextTargetTemperature = weeklySchedule[slot]
               /\ nextTargetHour = slot % HOURS_PER_DAY
               /\ \A o \in 1..(ForwardOffset(slot) - 1) :
                      weeklySchedule[(NowAbsoluteHour + o) % SCHEDULE_SLOTS] = 0

\* a search from the last hour of the week wrapped to the first day
C7_Witness ==
    /\ SearchRan
    /\ NowAbsoluteHour = SCHEDULE_SLOTS - 1
    /\ SetSlots # {}
    /\ SelectedSlot < HOURS_PER_DAY
    /\ nextTargetTemperature = weeklySchedule[SelectedSlot]

\* the window the forecast starts from
Snapshot == RollingWindow(temperatureHistory, tempHistoryIndex)

\* C8: after n pushes the snapshot has 96 elements; the last min(n, 96) are the
\* last pushed readings in push order, the ones before them are the default 20
C8_SnapshotIsRecentHistory ==
    LET n == Len(pushLog)
        kept == MIN(n, TEMP_HISTORY_SIZE)
    IN  /\ Len(Snapshot) = TEMP_HISTORY_SIZE
        /\ \A j \in 1..TEMP_HISTORY_SIZE :
               Snapshot[j] = IF j > TEMP_HISTORY_SIZE - kept
                             THEN pushLog[n - TEMP_HISTORY_SIZE + j]
                             ELSE DEFAULT_TEMPERATURE

\* the ring has wrapped and holds readings other than the default
C8_Witness ==
    /\ Len(pushLog) > TEMP_HISTORY_SIZE
    /\ pushLog[Len(pushLog)] # DEFAULT_TEMPERATURE
    /\ pushLog[Len(pushLog) - 1] # pushLog[Len(pushLog)]
    /\ temperatureHistory[0] # DEFAULT_TEMPERATURE

\* C9: a clock sync with a field missing or out of range reports an error and
\* leaves the clock, the server time, clock_synced, the next target, the
\* forecast and the first-sync flag as they were
C9_InvalidSyncRejected ==
    [][\A payload \in InvalidSyncs :
           time_sync_put_handler(payload)
               => /\ response' = BadRequest
                  /\ UNCHANGED <<simulatedDay, simulatedHour, serverDayOfWeek,
                                 serverHour, serverMinute, clockSynced,
                                 nextTargetTemperature, nextTargetHour,
                                 predictionBuffer, predictionBufferFilled,
                                 predictedTemperature, historical_data_received>>]_vars

\* a sync was rejected after an earlier one had been accepted
C9_Witness ==
    /\ lastOp = "time_sync"
    /\ response = BadRequest
    /\ clockSynced = 1
    /\ historical_data_received = 1
    /\ predictionBufferFilled = 1

\* C10: a publish happens only in a tick, and only with the clock synced
C10_NoPublishBeforeSync ==
    published => (clockSynced = 1 /\ lastOp \in {"tick", "tick_check"})

\* a tick published after a sync
C10_Witness ==
    published /\ clockSynced = 1 /\ ticksDone > 0 /\ requestsDone > 0

\* C11: a schedule request whose array holds more than 168 entries reports
\* BAD_REQUEST and leaves every slot as it was
C11_OverlongScheduleRejected ==
    [][\A payload \in ScheduleArrays :
           (Len(payload) > SCHEDULE_SLOTS /\ schedule_put_handler(payload))
               => (response' = BadRequest /\ weeklySchedule' = weeklySchedule)]_vars

\* the forecast holds 20 degrees at every one of its 96 steps
FlatForecast == predictionBufferFilled = 1 /\ \A step \in HistoryIndices : predictionBuffer[step] = 20

\* the decision ran at hour 8 of day 0 after a sync to (0, 8, 0), on the default
\* schedule, with heating off before it
DecidedAtEight ==
    /\ DecisionRan
    /\ clockSynced = 1
    /\ serverDayOfWeek = 0 /\ serverHour = 8 /\ serverMinute = 0
    /\ NowAbsoluteHour = 8
    /\ weeklySchedule = DefaultSchedule
    /\ heatingBefore = 0
    /\ isOptimizationEvent = 0

\* the analysis of the forecast the decision has just used
LastAnalysis == ScanForecast(weeklySchedule, predictionBuffer, NowAbsoluteHour)

\* C12 as stated: after a sync to (day 0, hour 8, minute 0), on the default
\* schedule and a forecast of 20 degrees at all 96 steps, the decision finds no
\* critical gap and the heating stays off
C12_FlatForecastKeepsHeating ==
    (DecidedAtEight /\ FlatForecast)
        => (LastAnalysis.criticalGapFound = 0 /\ isHeatingOn = heatingBefore)

\* C12: after a sync to (day 0, hour 8, minute 0), on the default schedule and
\* a forecast of 20 degrees at all 96 steps, the decision finds a critical gap
\* (22 scheduled at hour 18 against 20 forecast) and turns the heating on
C12_FlatForecastHeats ==
    (DecidedAtEight /\ FlatForecast)
        => (LastAnalysis.criticalGapFound = 1 /\ isHeatingOn = 1)

C12_Witness ==
    /\ DecidedAtEight
    /\ FlatForecast
    /\ LastAnalysis.maxTempShortfall = 2
    /\ isHeatingOn = 1

\* the last request was an accepted sync to (day 0, hour 8, minute 0) and the
\* schedule is the default one
SyncedToEight ==
    /\ lastOp = "time_sync" /\ response = Changed
    /\ serverDayOfWeek = 0 /\ serverHour = 8 /\ serverMinute = 0
    /\ scheduleInitialized = 1
    /\ weeklySchedule = DefaultSchedule

\* C13: with the default schedule, a clock sync to (day 0, hour 8, minute 0)
\* leaves nextTargetTemperature = 18 and nextTargetHour = 9
C13_SyncToEightFindsNine ==
    SyncedToEight => (nextTargetTemperature = 18 /\ nextTargetHour = 9)

C13_Witness ==
    /\ SyncedToEight
    /\ simulatedDay = 0 /\ simulatedHour = 8 * CYCLES_PER_HOUR
    /\ nextTargetTemperature = 18 /\ nextTargetHour = 9
    /\ scanned = <<9>>

\* the step is a tick
TickStep == ticksDone' = ticksDone + 1

\* C14: a tick on an active override with n > 0 cycles remaining leaves n - 1;
\* the override stays active (and the auto flag as it is) while n - 1 > 0, and
\* at n - 1 = 0 it is inactive with auto-behaviour enabled.  Hence from n the
\* override is active after each of the first n - 1 ticks and ends at the n-th.
C14_OverrideExpiresAfterN ==
    [][(TickStep /\ isManualOverride = 1 /\ overrideCyclesRemaining > 0)
           => /\ overrideCyclesRemaining' = overrideCyclesRemaining - 1
              /\ IF overrideCyclesRemaining > 1
                 THEN /\ isManualOverride' = 1
                      /\ isAutoBehaviorEnabled' = isAutoBehaviorEnabled
                 ELSE /\ isManualOverride' = 0
                      /\ isAutoBehaviorEnabled' = 1]_vars

\* the override of ShortOverride cycles has just run out on tick ShortOverride
C14_Witness ==
    /\ lastOp \in {"tick", "tick_offline"}
    /\ ticksDone = ShortOverride
    /\ isManualOverride = 0
    /\ overrideCyclesRemaining = 0
    /\ isAutoBehaviorEnabled = 1
    /\ heatingChangeCooldown = EXPIRY_COOLDOWN - 1

\* C15: a button press while the override is active leaves the override
\* inactive and auto-behaviour enabled, whatever the auto flag was before
C15_DeactivationEnablesAuto ==
    [][(isManualOverride = 1 /\ handle_button_press_event)
           => (isManualOverride' = 0 /\ isAutoBehaviorEnabled' = 1)]_vars

\* the last handler was a tick
AfterTick == lastOp \in {"tick", "tick_offline", "tick_check"}

\* C16: in every state reached by a tick, an active override has more than
\* zero cycles remaining
C16_ActiveOverrideHasCycles ==
    AfterTick => (isManualOverride = 1 => overrideCyclesRemaining > 0)

\* the request carries an override duration
HasDuration(payload) == \E i \in 1..Len(payload) : payload[i][1] = "od"

\* the duration it asks for
RequestedDuration(payload) ==
    payload[CHOOSE i \in 1..Len(payload) : payload[i][1] = "od"][2]

\* v brought into 0 .. cap
IntoRange(v) == IF v < 0 THEN 0 ELSE IF v > MAX_CYCLE_OVERRIDE THEN MAX_CYCLE_OVERRIDE ELSE v

\* C17: no tick, button press or settings request takes overrideCyclesRemaining
\* outside 0 .. MAX_CYCLE_OVERRIDE, and a settings request for a duration,
\* also one below 0 or above the cap, is answered CHANGED and stores the
\* requested value brought into that range
C17_CyclesStayInRange ==
    [][/\ overrideCyclesRemaining' >= 0
       /\ overrideCyclesRemaining' <= MAX_CYCLE_OVERRIDE
       /\ \A payload \in OverrideSettings :
              (HasDuration(payload) /\ settings_put_handler(payload))
                  => /\ response' = Changed
                     /\ overrideCyclesRemaining' = IntoRange(RequestedDuration(payload))]_vars

\* a settings request has just left the counter at the cap with the override
\* inactive and the heating off, as the request above the cap does at power-up
C17_Witness ==
    /\ lastOp = "settings" /\ response = Changed
    /\ overrideCyclesRemaining = MAX_CYCLE_OVERRIDE
    /\ isManualOverride = 0
    /\ isHeatingOn = 0 /\ heatingBefore = 0
    /\ ticksDone = 0

\* some hour from the current one to 24 hours ahead has a target
HorizonHasTarget ==
    \E ahead \in 0..HOURS_PER_DAY :
        weeklySchedule[(NowAbsoluteHour + ahead) % SCHEDULE_SLOTS] > 0

\* heating on below 10, off above 20, else as before
AbsoluteBounds ==
    IF predictedTemperature < 10 THEN 1
    ELSE IF predictedTemperature > 20 THEN 0
    ELSE heatingBefore

\* C18: a decision (override inactive, auto enabled) with no slot set in the
\* forecast horizon sets the heating by the absolute bounds on the predicted
\* temperature; with some slot of the horizon set it sets the heating by the
\* analysis of the forecast, not by the bounds
C18_FallbackOnlyWithoutTargets ==
    DecisionRan =>
        IF HorizonHasTarget
        THEN isHeatingOn = ScheduledDecision(LastAnalysis, heatingBefore)
        ELSE isHeatingOn = AbsoluteBounds

\* no slot in the horizon, prediction below 10: the heating has come on
C18_Witness ==
    /\ DecisionRan
    /\ ~HorizonHasTarget
    /\ predictedTemperature < 10
    /\ heatingBefore = 0
    /\ isHeatingOn = 1

\* no slot in the horizon, prediction above 20: the heating has gone off
C18_WitnessOff ==
    /\ DecisionRan
    /\ ~HorizonHasTarget
    /\ predictedTemperature > 20
    /\ heatingBefore = 1
    /\ isHeatingOn = 0

\* no slot in the horizon, prediction within the bounds: the heating stays on
C18_WitnessKeep ==
    /\ DecisionRan
    /\ ~HorizonHasTarget
    /\ predictedTemperature >= 10 /\ predictedTemperature <= 20
    /\ heatingBefore = 1
    /\ isHeatingOn = 1

\* a slot in the horizon, prediction above 20: the bounds would turn the
\* heating off, the analysis keeps it on
C18_WitnessScheduled ==
    /\ DecisionRan
    /\ HorizonHasTarget
    /\ predictedTemperature > 20
    /\ heatingBefore = 1
    /\ isHeatingOn = 1

\* everything the program keeps apart from the two results of the search
AllButNextTarget ==
    <<isManualOverride, isOptimizationEvent, isHeatingOn, overrideCyclesRemaining,
      isAutoBehaviorEnabled, temperatureHistory, tempHistoryIndex, tempHistoryFilled,
      cyclesSinceLastTempCheck, predictedTemperature, predictionBuffer,
      predictionBufferFilled, targetTemperature, weeklySchedule, scheduleInitialized,
      heatingChangeCooldown, simulatedHour, simulatedDay, clockSynced, serverDayOfWeek,
      serverHour, serverMinute, temperatureCelsius, simulatedTemperatureFloat,
      historical_data_received>>

\* the state is as a call of the search left it: a call on its own, or the one
\* that ends an accepted schedule or sync request
JustSearched == lastOp = "find_next" \/ SearchRan

\* C19: a call of find_next_target_temperature changes nothing but
\* nextTargetTemperature and nextTargetHour, and a call that follows another
\* with clock and schedule as they were leaves these two as they are
C19_FindNextIdempotent ==
    [][lastOp' = "find_next"
           => /\ AllButNextTarget' = AllButNextTarget
              /\ JustSearched => /\ nextTargetTemperature' = nextTargetTemperature
                                 /\ nextTargetHour' = nextTargetHour]_vars

\* a call on its own has found slot 0, written by a rejected schedule request
\* that left the stored next target stale
C19_Witness ==
    /\ lastOp = "find_next"
    /\ NowAbsoluteHour = SCHEDULE_SLOTS - 1
    /\ weeklySchedule[0] = 25 /\ weeklySchedule[7] = 22
    /\ nextTargetTemperature = 25 /\ nextTargetHour = 0

\* the step recomputes the forecast: a due check, an accepted schedule, a first sync
RecomputesForecast ==
    \/ lastOp' = "tick_check"
    \/ lastOp' = "schedule" /\ response' = Changed
    \/ lastOp' = "time_sync" /\ response' = Changed /\ historical_data_received = 0

\* a horizon no forecast produces
NoForecast == [step \in HistoryIndices |-> -1]

\* the history and cursor the handler of the step hands to the recomputation:
\* a check pushes its reading first, a request pushes nothing
HistoryAtRecomputation ==
    IF lastOp' = "tick_check"
    THEN [hist |-> [temperatureHistory EXCEPT ![tempHistoryIndex] = temperatureCelsius'],
          idx |-> (tempHistoryIndex + 1) % TEMP_HISTORY_SIZE]
    ELSE [hist |-> temperatureHistory, idx |-> tempHistoryIndex]

\* C20: a recomputation of the forecast leaves 96 entries, each of them the one
\* computed from the history alone (the same whatever the horizon held before),
\* and leaves the history and its write cursor as it received them
C20_ForecastRegeneratedWhole ==
    [][RecomputesForecast
           => /\ DOMAIN predictionBuffer' = HistoryIndices
              /\ predictionBuffer' =
                     predict_next_24_hours(predictorKind, HistoryAtRecomputation.hist,
                                           HistoryAtRecomputation.idx, NoForecast).buf
              /\ temperatureHistory' = HistoryAtRecomputation.hist
              /\ tempHistoryIndex' = HistoryAtRecomputation.idx]_vars

\* a check has recomputed the forecast over the one a first sync left
C20_Witness ==
    /\ lastOp = "tick_check"
    /\ historical_data_received = 1
    /\ predictionBufferFilled = 1
    /\ \A step \in HistoryIndices : predictionBuffer[step] > 0

\* an accepted schedule request has recomputed the forecast on the all-default
\* history of power-up
C20_WitnessDefaultHistory ==
    /\ lastOp = "schedule" /\ response = Changed
    /\ \A i \in HistoryIndices : temperatureHistory[i] = DEFAULT_TEMPERATURE
    /\ \A step \in HistoryIndices : predictionBuffer[step] > 0

\* day 0..6, hour 0..23, minute 0..59
SyncInRange(payload) ==
    /\ payload.day >= 0 /\ payload.day <= 6
    /\ payload.hour >= 0 /\ payload.hour <= 23
    /\ payload.minute >= 0 /\ payload.minute <= 59

\* C21: a sync request within range sets the clock to the supplied day and to
\* hour + minute/60 whatever the clock was, sets clockSynced, and leaves the
\* next target the search finds from the new clock; no step clears clockSynced
C21_SyncJumpsClock ==
    [][/\ clockSynced = 1 => clockSynced' = 1
       /\ \A payload \in SearchSyncs :
              (SyncInRange(payload) /\ time_sync_put_handler(payload))
                  => LET found == find_next_target_temperature(weeklySchedule',
                                      scheduleInitialized', simulatedDay', simulatedHour')
                     IN  /\ response' = Changed
                         /\ simulatedDay' = payload.day
                         /\ simulatedHour' = payload.hour * CYCLES_PER_HOUR
                                                + (payload.minute * CYCLES_PER_HOUR) \div 60
                         /\ clockSynced' = 1
                         /\ nextTargetTemperature' = found.temp
                         /\ nextTargetHour' = found.hour]_vars

\* the clock stands at day 3, 12:30 after a sync to it
C21_Witness ==
    /\ lastOp = "time_sync" /\ response = Changed
    /\ clockSynced = 1
    /\ serverDayOfWeek = 3 /\ serverHour = 12 /\ serverMinute = 30
    /\ simulatedDay = 3
    /\ simulatedHour = 12 * CYCLES_PER_HOUR + CYCLES_PER_HOUR \div 2
    /\ nextTargetHour = 18

\* the forecast as computed from the history the state holds
FreshForecast ==
    predict_next_24_hours(predictorKind, temperatureHistory, tempHistoryIndex,
                          NoForecast).buf

\* C22: a sync request recomputes the forecast when it is within range and no
\* sync was accepted before it; every other sync request, rejected or later,
\* leaves the forecast as it is, and a rejected one leaves the next accepted
\* one the first
C22_ForecastOnFirstSyncOnly ==
    [][\A payload \in TimeSyncPayloads :
           time_sync_put_handler(payload)
               => IF SyncInRange(payload) /\ clockSynced = 0
                  THEN /\ predictionBuffer' = FreshForecast
                       /\ predictionBufferFilled' = 1
                       /\ predictedTemperature' = FreshForecast[0]
                       /\ clockSynced' = 1
                  ELSE /\ UNCHANGED <<predictionBuffer, predictionBufferFilled,
                                      predictedTemperature>>
                       /\ SyncInRange(payload) \/ clockSynced' = clockSynced]_vars

\* a later sync has been accepted and the forecast is still the one computed
\* before the last reading was pushed
C22_Witness ==
    /\ lastOp = "time_sync" /\ response = Changed
    /\ ticksDone >= 1
    /\ predictionBufferFilled = 1
    /\ predictionBuffer # FreshForecast

\* 168 values, each 0 or within 10..30
FullValidArray(payload) ==
    /\ Len(payload) = SCHEDULE_SLOTS
    /\ \A i \in 1..Len(payload) :
           payload[i] = 0 \/ (payload[i] >= 10 /\ payload[i] <= 30)

\* C23: a schedule request with 168 valid values is answered CHANGED with all
\* 168 values stored, the next target the one the search finds in the new
\* schedule, and the forecast the one computed from the history as it stands
C23_ReplaceRecomputes ==
    [][\A payload \in SchedulePayloads :
           (FullValidArray(payload) /\ schedule_put_handler(payload))
               => LET found == find_next_target_temperature(weeklySchedule', 1,
                                   simulatedDay', simulatedHour')
                      forecast == predict_next_24_hours(predictorKind', temperatureHistory',
                                      tempHistoryIndex', NoForecast)
                  IN  /\ response' = Changed
                      /\ \A i \in SlotIndices : weeklySchedule'[i] = payload[i + 1]
                      /\ scheduleInitialized' = 1
                      /\ nextTargetTemperature' = found.temp
                      /\ nextTargetHour' = found.hour
                      /\ predictionBuffer' = forecast.buf
                      /\ predictionBufferFilled' = 1
                      /\ predictedTemperature' = forecast.predicted]_vars

\* the schedule was replaced after a reading other than 22 was pushed: the
\* next target is the 16 of the new schedule, the forecast starts from the
\* new reading
C23_Witness ==
    /\ lastOp = "schedule" /\ response = Changed
    /\ ticksDone >= 1
    /\ Len(pushLog) > 0
    /\ pushLog[Len(pushLog)] # INITIAL_SIMULATED_TEMPERATURE
    /\ \A i \in SlotIndices : weeklySchedule[i] = 16
    /\ nextTargetTemperature = 16
    /\ predictionBuffer = FreshForecast

\* C24: every step leaves the clock with 0 <= hour < 24 and day in 0..6; a
\* tick adds one 15 s increment to the hour and keeps the day, except the tick
\* on which the hour would reach 24: that one starts the hour over and moves
\* the day on by one modulo 7
C24_ClockStaysInWeek ==
    [][/\ simulatedHour' >= 0 /\ simulatedHour' < 24 * CYCLES_PER_HOUR
       /\ simulatedDay' >= 0 /\ simulatedDay' <= 6
       /\ simulatedDay' * 24 + (simulatedHour' \div CYCLES_PER_HOUR) \in 0..167
       /\ TickStep =>
              IF simulatedHour + 1 >= 24 * CYCLES_PER_HOUR
              THEN /\ simulatedHour' < simulatedHour
                   /\ simulatedDay' = (simulatedDay + 1) % 7
              ELSE /\ simulatedHour' = simulatedHour + 1
                   /\ simulatedDay' = simulatedDay]_vars

\* the week has wrapped: a tick after the sync to the last minute of day 6
\* has taken the clock to day 0
C24_Witness ==
    /\ AfterTick
    /\ serverDayOfWeek = 6 /\ serverHour = 23 /\ serverMinute = 59
    /\ simulatedDay = 0
    /\ simulatedHour = 0

\* the step is the tick that counts the 120th cycle since the last check
CadenceTick ==
    /\ TickStep
    /\ cyclesSinceLastTempCheck = 119
    /\ cyclesSinceLastTempCheck' = 0

\* C25: every tick leaves the cycle counter in 0..119; the heating state is
\* changed only by the button, by a settings request, or by the tick that
\* counts the 120th cycle since the last check; every other tick leaves the
\* heating, the optimization flag and the next target as they are
C25_DecisionOnlyAtCadence ==
    [][/\ TickStep => (cyclesSinceLastTempCheck' >= 0 /\ cyclesSinceLastTempCheck' <= 119)
       /\ (isHeatingOn' # isHeatingOn /\ lastOp' \notin {"button", "settings"})
              => CadenceTick
       /\ (TickStep /\ ~CadenceTick)
              => UNCHANGED <<isHeatingOn, isOptimizationEvent, nextTargetTemperature,
                            nextTargetHour>>]_vars

\* the tick that counted the 120th cycle has switched the heating on
C25_Witness ==
    /\ lastOp = "tick_check"
    /\ cyclesSinceLastTempCheck = 0
    /\ Len(pushLog) = TEMP_CHECK_INTERVAL
    /\ heatingBefore = 0
    /\ isHeatingOn = 1

\* C26: every slot of the weekly schedule is 0 or within 10..30
C26_SlotsUnsetOrInRange ==
    \A i \in SlotIndices :
        weeklySchedule[i] = 0 \/ (weeklySchedule[i] >= 10 /\ weeklySchedule[i] <= 30)

\* a rejected request has left its first entry in slot 0 and the default
\* schedule elsewhere; the 5 offered for slot 1 is not there
C26_Witness ==
    /\ lastOp = "schedule" /\ response = BadRequest
    /\ weeklySchedule[0] = 25
    /\ \A i \in SlotIndices \ {0} : weeklySchedule[i] = DefaultSchedule[i]

\* C27: a settings request answered BAD_REQUEST leaves the override, the
\* heating state, the remaining cycles and the auto flag as they were
C27_RejectedSettingsUntouched ==
    [][\A payload \in OverrideSettings :
           (settings_put_handler(payload) /\ response' = BadRequest)
               => UNCHANGED <<isManualOverride, isHeatingOn, overrideCyclesRemaining,
                             isAutoBehaviorEnabled>>]_vars

\* every set target of the horizon is within the band: none more than the
\* turn-on threshold above its forecast, and the largest gap not below the
\* turn-off threshold
GapsWithinBand ==
    /\ TargetSteps # {}
    /\ \A step \in TargetSteps :
           weeklySchedule[ForecastSlot(NowAbsoluteHour, step)] - predictionBuffer[step]
               <= TEMP_THRESHOLD_LOW
    /\ \E step \in TargetSteps :
           weeklySchedule[ForecastSlot(NowAbsoluteHour, step)] - predictionBuffer[step]
               >= -TEMP_THRESHOLD_HIGH

\* C28: after a decision with override inactive and auto-behaviour enabled, a
\* horizon with a set target whose gaps all lie within the hysteresis band
\* leaves the heating as it was before the tick
C28_BandKeepsHeating ==
    (DecisionRan /\ GapsWithinBand) => isHeatingOn = heatingBefore

\* a decision inside the band kept the heating on
C28_Witness ==
    DecisionRan /\ GapsWithinBand /\ heatingBefore = 1 /\ isHeatingOn = 1

\* a decision inside the band kept the heating off
C28_WitnessOff ==
    DecisionRan /\ GapsWithinBand /\ heatingBefore = 0 /\ isHeatingOn = 0

C30_EveryTickAppends ==
    [][TickStep =>
           /\ tempHistoryIndex' = (tempHistoryIndex + 1) % TEMP_HISTORY_SIZE
           /\ temperatureHistory' =
                  [temperatureHistory EXCEPT ![tempHistoryIndex] = temperatureCelsius']
           /\ Len(pushLog') = Len(pushLog) + 1]_vars

\* C31: a step of any handler other than the schedule request (tick, clock
\* sync, button press, settings request) leaves all 168 slots as they were
C31_ScheduleFrame ==
    [][lastOp' # "schedule" => weeklySchedule' = weeklySchedule]_vars

\* a check ran its forecast and decision over a replaced schedule and left it
\* in place
C31_Witness ==
    /\ lastOp = "tick_check"
    /\ weeklySchedule # DefaultSchedule
    /\ \E payload \in SchedulePayloads :
           \A i \in SlotIndices : weeklySchedule[i] = payload[i + 1]

\* a button press came after a replace and left the replaced schedule in place
C31_WitnessButton ==
    /\ lastOp = "button"
    /\ weeklySchedule # DefaultSchedule

\* the history in chronological order, oldest reading first
Chronological ==
    [j \in 1..TEMP_HISTORY_SIZE |->
        temperatureHistory[(tempHistoryIndex + j - 1) % TEMP_HISTORY_SIZE]]

\* the window of forecast step i: the last H - i history values followed by
\* forecast[0..i-1]
WindowOfStep(i) ==
    [j \in 1..TEMP_HISTORY_SIZE |->
        IF j <= TEMP_HISTORY_SIZE - i THEN Chronological[j + i]
        ELSE predictionBuffer[j - (TEMP_HISTORY_SIZE - i) - 1]]

\* C32: after a check has recomputed the forecast, every entry i is the
\* single-step prediction on the last H - i history values followed by the
\* entries 0..i-1
C32_ForecastAutoregressive ==
    lastOp = "tick_check" =>
        \A i \in HistoryIndices :
            predictionBuffer[i] = predict_single_step(predictorKind, WindowOfStep(i))

\* a forecast was computed from a history whose readings differ, and its
\* entries differ
C32_Witness ==
    /\ lastOp = "tick_check"
    /\ Chronological[TEMP_HISTORY_SIZE] # Chronological[1]
    /\ Chronological[TEMP_HISTORY_SIZE] # Chronological[TEMP_HISTORY_SIZE - 1]
    /\ predictionBuffer[TEMP_HISTORY_SIZE - 1] # predictionBuffer[0]

\* the schedule slot of forecast step i: (i + 3) div 4 hours after the current one
SlotOfStep(i) == (NowAbsoluteHour + (i + 3) \div 4) % SCHEDULE_SLOTS

\* the forecast steps whose slot is set
EvaluatedSteps == {i \in HistoryIndices : weeklySchedule[SlotOfStep(i)] > 0}

\* the slots from the current hour to 24 hours ahead
HorizonSlots == {(NowAbsoluteHour + ahead) % SCHEDULE_SLOTS : ahead \in 0..HOURS_PER_DAY}

\* C33: a decision compares forecast step i with the slot (i + 3) div 4 hours
\* after the current one.  With no slot set from the current hour to 24 hours
\* ahead it sets the heating by the absolute bounds; otherwise a set slot more
\* than the turn-on threshold above its step turns the heating on, and without
\* such a step the heating is never turned on
C33_StepsCompareRoundedHours ==
    DecisionRan =>
        IF \A slot \in HorizonSlots : weeklySchedule[slot] = 0
        THEN isHeatingOn = AbsoluteBounds
        ELSE IF \E i \in EvaluatedSteps :
                    weeklySchedule[SlotOfStep(i)] - predictionBuffer[i] > TEMP_THRESHOLD_LOW
             THEN isHeatingOn = 1
             ELSE isHeatingOn \in {heatingBefore, 0}

\* the only target is at the current hour and only forecast step 0 is compared
\* with it: step 2 is more than the threshold below it and the heating stays off
C33_Witness ==
    /\ DecisionRan
    /\ EvaluatedSteps = {0}
    /\ weeklySchedule[NowAbsoluteHour] - predictionBuffer[2] > TEMP_THRESHOLD_LOW
    /\ heatingBefore = 0
    /\ isHeatingOn = 0

\* the only target is 24 hours ahead and the last forecast step, compared with
\* it, turns the heating on
C33_WitnessLastHour ==
    /\ DecisionRan
    /\ SetSlots = {(NowAbsoluteHour + HOURS_PER_DAY) % SCHEDULE_SLOTS}
    /\ TEMP_HISTORY_SIZE - 1 \in EvaluatedSteps
    /\ heatingBefore = 0
    /\ isHeatingOn = 1

\* the only target is 25 hours ahead: no step is compared and the bounds decide
C33_WitnessBeyond ==
    /\ DecisionRan
    /\ SetSlots = {(NowAbsoluteHour + HOURS_PER_DAY + 1) % SCHEDULE_SLOTS}
    /\ EvaluatedSteps = {}
    /\ isHeatingOn = AbsoluteBounds

\* the step is a button press
ButtonStep == lastOp' = "button"

\* C34: a button press with the override inactive activates it with the cap of
\* cycles and the heating switched to the opposite state; a second press
\* directly after it leaves the override inactive with no cycles remaining
C34_ButtonTogglesOverride ==
    [][/\ (ButtonStep /\ isManualOverride = 0)
           => /\ isManualOverride' = 1
              /\ overrideCyclesRemaining' = MAX_CYCLE_OVERRIDE
              /\ isHeatingOn' # isHeatingOn
              /\ isHeatingOn' \in {0, 1}
       /\ (ButtonStep /\ lastOp = "button" /\ isManualOverride = 1)
           => /\ isManualOverride' = 0
              /\ overrideCyclesRemaining' = 0]_vars

\* a press activated the override and forced the heating on
C34_Witness ==
    /\ lastOp = "button"
    /\ isManualOverride = 1
    /\ overrideCyclesRemaining = MAX_CYCLE_OVERRIDE
    /\ heatingBefore = 0
    /\ isHeatingOn = 1

\* a press deactivated the override and left the forced heating on
C34_WitnessSecondPress ==
    /\ lastOp = "button"
    /\ isManualOverride = 0
    /\ overrideCyclesRemaining = 0
    /\ heatingBefore = 1
    /\ isHeatingOn = 1

\* C35: the heating a decision leaves is the one that follows from the
\* schedule, the clock and the forecast of the state the check tick leaves, the
\* forecast being the one recomputed from the history of that state, whatever
\* requests were handled between the ticks
C35_DecisionOnOneSnapshot ==
    DecisionRan =>
        /\ predictionBuffer = FreshForecast
        /\ IF ~HorizonHasTarget THEN isHeatingOn = AbsoluteBounds
           ELSE IF CriticalStepExists THEN isHeatingOn = 1
           ELSE isHeatingOn \in {heatingBefore, 0}

\* a decision taken after a schedule replace and a clock sync were handled
\* between the ticks
C35_Witness ==
    /\ DecisionRan
    /\ clockSynced = 1
    /\ weeklySchedule # DefaultSchedule

\* C36: after every tick, every accepted clock sync and every accepted schedule
\* replace, the current target is the schedule value of the current clock slot
C36_TargetIsCurrentSlot ==
    (AfterTick \/ (lastOp \in {"time_sync", "schedule"} /\ response = Changed))
        => targetTemperature = weeklySchedule[simulatedDay * HOURS_PER_DAY
                                              + simulatedHour \div CYCLES_PER_HOUR]

\* C37: in every state a tick leaves, the stored next target and its hour are
\* what find_next_target_temperature() returns for the clock and the schedule
\* of that state
C37_NextTargetNeverStale ==
    AfterTick =>
        LET found == find_next_target_temperature(weeklySchedule, scheduleInitialized,
                                                  simulatedDay, simulatedHour)
        IN  /\ nextTargetTemperature = found.temp
            /\ nextTargetHour = found.hour

\* C38: a check-cadence tick taken while the clock has never been synced
\* leaves the heating state as it was
C38_NoDecisionBeforeSync ==
    [][(CadenceTick /\ clockSynced = 0) => isHeatingOn' = isHeatingOn]_vars

C40_DecisionFindsForecastReady ==
    /\ scheduleInitialized = 1
    /\ lastOp = "tick_check" => predictionBufferFilled = 1
    /\ (lastOp = "time_sync" /\ response = Changed) => predictionBufferFilled = 1

\* the first check after power-up, with no request before it, decided on the
\* forecast it had just computed and turned the heating on
C40_Witness ==
    /\ DecisionRan
    /\ historical_data_received = 0
    /\ weeklySchedule = DefaultSchedule
    /\ predictionBufferFilled = 1
    /\ CriticalStepExists
    /\ heatingBefore = 0
    /\ isHeatingOn = 1

\* the first accepted sync left the horizon filled
C40_WitnessFirstSync ==
    /\ lastOp = "time_sync"
    /\ response = Changed
    /\ historical_data_received = 1
    /\ predictionBufferFilled = 1
    /\ predictionBuffer = FreshForecast

====
